---------------------------- MODULE Spec2Model ----------------------------
(***************************************************************************)
(* A model of the MorgueLibrarian core: the depth-bounded link crawler     *)
(* (morgue_spider.py) and the morgue classifier with its batch loop        *)
(* (winning_parser.py).  Strings are TLA+ strings handled character by     *)
(* character with Len, SubSeq and \o, so that the text operations of the   *)
(* code (split, strip, find, lower, startswith, ...) are computed as       *)
(* Python computes them.                                                   *)
(***************************************************************************)
EXTENDS Integers, Sequences, FiniteSets, TLC

VARIABLES
    \* ---- MorgueSpider ----
    urls,          \* self.urls, as the set spider() makes of it
    self_depth,    \* self.depth
    known_urls,    \* URLs in the record files already on disk before the run
    pc,            \* "init" | "call" | "loop" | "done" | "raised"
    all_urls,      \* argument all_urls of the current _spider call
    new_urls,      \* argument new_urls of the current _spider call
    depth,         \* argument depth of the current _spider call
    newer_urls,    \* local newer_urls of the current round
    url_iter,      \* what the URLIterator of the round has yet to deliver
    morgue_file,   \* lines appended to the discovered-URL file by this crawl
    fetched,       \* history: URLs given to find_links_in_file, in order
    extracted,     \* history: every link find_links_in_file returned
    rounds,        \* history: number of rounds that passed the guard of _spider
    frontiers,     \* history: the new_urls of every round, in order
    result,        \* what spider() returned (meaningful when pc = "done")
    \* ---- WinningParser.parse_one_morgue ----
    txt,           \* argument txt
    url,           \* argument url
    save_winners,  \* self.save_winners
    outcome,       \* how the call ended; kind "none" before the call
    \* ---- WinningParser.parse ----
    batch,         \* the lines the URLIterator of parse() delivers, in order
    pos,           \* number of URLs delivered so far
    wf,            \* lines appended to the winners file
    lf,            \* lines appended to the losers file
    ef,            \* lines appended to the errors file
    stopped,       \* TRUE when an exception escaped the loop of parse()
    run,           \* the number of the run of parse() over the data directory
    past_batch,    \* history: what the run before this one was delivered
    past_done      \* history: URLs (stripped) that earlier runs read and recorded

vars == << urls, self_depth, known_urls, pc, all_urls, new_urls, depth,
           newer_urls, url_iter, morgue_file, fetched, extracted, rounds,
           frontiers,
           result, txt, url, save_winners, outcome, batch, pos, wf, lf, ef,
           stopped, run, past_batch, past_done >>

spiderVars == << urls, self_depth, pc, all_urls, new_urls, depth,
                 newer_urls, url_iter, morgue_file, fetched, extracted,
                 rounds, frontiers, result >>

classifyVars == << txt, url, save_winners, outcome >>

parseVars == << batch, pos, wf, lf, ef, stopped, run, past_batch, past_done >>

-----------------------------------------------------------------------------
(* Bounds of the model *)

MaxDepth == 2      \* crawl depths 0 .. MaxDepth
MaxLinks == 2      \* a fetched page holds at most MaxLinks distinct links
MaxBatch == 2      \* parse() is delivered at most MaxBatch URLs
MaxRuns == 2       \* parse() is run at most MaxRuns times over the directory

-----------------------------------------------------------------------------
(* Python's str operations *)

\* the ASCII control characters 1..31 in code-point order: 9, 10, 12 and 13 are
\* written as escapes, the others stand in the string as they are
AsciiCtl == "\t\n\f\r"

\* the ASCII character 127, standing in the string as it is
AsciiDel == ""

\* the printable ASCII characters 32..95 and 97..126 in code-point order (a
\* TLA+ string cannot hold the character 96)
AsciiLo ==
    " !\"#$%&'()*+,-./0123456789:;<=>?@ABCDEFGHIJKLMNOPQRSTUVWXYZ[\\]^_"

AsciiHi == "abcdefghijklmnopqrstuvwxyz{|}~"

CharAt(s, i) == SubSeq(s, i, i)

Min(S) == CHOOSE x \in S : \A y \in S : x <= y

\* s.find(sub): the least 0-based index where sub occurs in s, or -1
Find(s, sub) ==
    LET n == Len(s)
        m == Len(sub)
        at == { i \in 0..(n - m) : SubSeq(s, i + 1, i + m) = sub }
    IN  IF at = {} THEN -1 ELSE Min(at)

\* sub in s
Contains(s, sub) ==
    \E i \in 0..(Len(s) - Len(sub)) : SubSeq(s, i + 1, i + Len(sub)) = sub

StartsWith(s, p) == Len(s) >= Len(p) /\ SubSeq(s, 1, Len(p)) = p

EndsWith(s, p) ==
    Len(s) >= Len(p) /\ SubSeq(s, Len(s) - Len(p) + 1, Len(s)) = p

\* ord(c) of a one-character string; the strings of the model hold the ASCII
\* characters 0..127 but for 96, and the character of no table is chr(0)
Ord(c) ==
    IF Contains(AsciiLo, c) THEN 32 + Find(AsciiLo, c)
    ELSE IF Contains(AsciiHi, c) THEN 97 + Find(AsciiHi, c)
    ELSE IF Contains(AsciiCtl, c) THEN 1 + Find(AsciiCtl, c)
    ELSE IF c = AsciiDel THEN 127
    ELSE 0

\* the ASCII white space: the characters 9..13, 28..31 and 32
WhiteSpace ==
    { CharAt(AsciiCtl, i) : i \in (9..13) \cup (28..31) } \cup {" "}

\* c.isspace(): what str.strip() and str.split() take for white space
IsSpace(c) == c \in WhiteSpace

\* the lower-case letter of every upper-case letter
LowerOf ==
    [ c \in { CharAt("ABCDEFGHIJKLMNOPQRSTUVWXYZ", i) : i \in 1..26 } |->
        CharAt(AsciiHi, Find("ABCDEFGHIJKLMNOPQRSTUVWXYZ", c) + 1) ]

\* c.lower() of a one-character string
LowerChar(c) == IF c \in DOMAIN LowerOf THEN LowerOf[c] ELSE c

\* s.lower()
RECURSIVE Lower(_)
Lower(s) ==
    IF s = "" THEN ""
    ELSE IF Len(s) = 1 THEN LowerChar(s)
    ELSE Lower(SubSeq(s, 1, Len(s) \div 2))
         \o Lower(SubSeq(s, (Len(s) \div 2) + 1, Len(s)))

\* s.strip(): s without the white space at its two ends
RECURSIVE Strip(_)
Strip(s) ==
    IF s = "" THEN ""
    ELSE IF IsSpace(CharAt(s, 1)) THEN Strip(SubSeq(s, 2, Len(s)))
    ELSE IF IsSpace(CharAt(s, Len(s))) THEN Strip(SubSeq(s, 1, Len(s) - 1))
    ELSE s

\* s.split(sep) for a non-empty separator
RECURSIVE Split(_, _)
Split(s, sep) ==
    LET i == Find(s, sep)
    IN  IF i < 0 THEN << s >>
        ELSE << SubSeq(s, 1, i) >>
             \o Split(SubSeq(s, i + Len(sep) + 1, Len(s)), sep)

\* s.split(): the maximal runs of non-whitespace characters
RECURSIVE SplitWS(_)
SplitWS(s) ==
    LET ink == { i \in 1..Len(s) : ~IsSpace(CharAt(s, i)) }
    IN  IF ink = {} THEN << >>
        ELSE LET b == Min(ink)
                 sp == { i \in b..Len(s) : IsSpace(CharAt(s, i)) }
                 e == IF sp = {} THEN Len(s) + 1 ELSE Min(sp)
             IN  << SubSeq(s, b, e - 1) >> \o SplitWS(SubSeq(s, e, Len(s)))

\* s.replace(old, new) for a non-empty old
RECURSIVE Replace(_, _, _)
Replace(s, old, new) ==
    LET i == Find(s, old)
    IN  IF i < 0 THEN s
        ELSE SubSeq(s, 1, i) \o new
             \o Replace(SubSeq(s, i + Len(old) + 1, Len(s)), old, new)

\* sep.join(parts)
RECURSIVE Join(_, _)
Join(parts, sep) ==
    IF parts = << >> THEN ""
    ELSE IF Len(parts) = 1 THEN parts[1]
    ELSE parts[1] \o sep \o Join(Tail(parts), sep)

\* a < b on str: by code point, a proper prefix first
StrLess(a, b) ==
    LET n == IF Len(a) < Len(b) THEN Len(a) ELSE Len(b)
        d == { i \in 1..n : CharAt(a, i) # CharAt(b, i) }
    IN  IF d = {} THEN Len(a) < Len(b)
        ELSE Ord(CharAt(a, Min(d))) < Ord(CharAt(b, Min(d)))

\* sorted(S) of a set of str
RECURSIVE Sorted(_)
Sorted(S) ==
    IF S = {} THEN << >>
    ELSE LET m == CHOOSE x \in S : \A y \in S : x = y \/ StrLess(x, y)
         IN  << m >> \o Sorted(S \ {m})

Range(q) == { q[i] : i \in 1..Len(q) }

-----------------------------------------------------------------------------
(* MorgueSpider (morgue_spider.py) *)

\* The URLs of the modelled web: two pages the relevance filter accepts (one
\* only case-insensitively), a morgue file, a page the filter rejects, and a
\* relative link the filter accepts.
UrlPool ==
    { "http://s/crawl/a.html",
      "http://s/DCSS/b.html",
      "http://s/morgue-c.txt",
      "http://s/news.html",
      "/crawl/d.html" }

\* what a page can hold: at most MaxLinks distinct links
LinkSets == { L \in SUBSET UrlPool : Cardinality(L) <= MaxLinks }

\* MorgueSpider._looks_crawl_related
looks_crawl_related(u) ==
    LET lu == Lower(u)
    IN  \E term \in {"crawl", "dcss", "morgue"} : Contains(lu, term)

\* the URLs of the pool the loop of _spider fetches: those that end in
\* '.html' and look crawl related
ExpandablePool ==
    { u \in UrlPool : EndsWith(u, ".html") /\ looks_crawl_related(u) }

Expandable(u) == u \in ExpandablePool

\* the URLs of the pool that _write_morgue_urls_to_file takes for valid links
HttpPool == { u \in UrlPool : StartsWith(u, "http") }

\* sorted(UrlPool)
SortedPool == Sorted(UrlPool)

\* KnownMorgues.find / includes over the record files of the data directory:
\* the files that were there before the crawl and the discovered-URL file the
\* crawl itself appends to
KnownIncludes(u, file) == u \in known_urls \/ u \in Range(file)

\* _write_morgue_urls_to_file without the test of line 186 for 'http'
write_morgue_urls_unfiltered(us, file) ==
    LET fresh == { u \in us : ~KnownIncludes(u, file) }
    IN  IF fresh = {} THEN file
        ELSE file \o SelectSeq(SortedPool, LAMBDA u : u \in fresh)

\* MorgueSpider._write_morgue_urls_to_file: the file after the call
write_morgue_urls_to_file(us, file) ==
    LET fresh == { u \in us : ~KnownIncludes(u, file) }
        valid == { u \in fresh : u \in HttpPool }
    IN  IF valid = {} THEN file
        ELSE file \o SelectSeq(SortedPool, LAMBDA u : u \in valid)

\* the guard with the depth compared by < instead of <=
SpiderGuardStrict(d, new) == d < 0 \/ Cardinality(new) = 0

\* the guard without the depth
SpiderGuardNoDepth(d, new) == Cardinality(new) = 0

\* guard of _spider: return all_urls without expanding
SpiderGuard(d, new) == d <= 0 \/ Cardinality(new) = 0

\* the recursive call given all_urls as it was
NextAllUrlsUnchanged(all, newer) == all

\* the arguments of the recursive call that ends a round
NextAllUrls(all, newer) == all \cup newer

\* line 132 without the difference: all that the round found is new
NextNewUrlsNoDifference(all, newer) == newer

\* line 132: what the round found that was not known before it
NextNewUrls(all, newer) == newer \ all

SpiderInit ==
    /\ urls \in SUBSET UrlPool
    /\ self_depth \in 0..MaxDepth
    /\ known_urls \in SUBSET {"http://s/morgue-c.txt", "http://s/DCSS/b.html"}
    /\ pc = "init"
    /\ all_urls = {}
    /\ new_urls = {}
    /\ depth = 0
    /\ newer_urls = {}
    /\ url_iter = {}
    /\ morgue_file = << >>
    /\ fetched = << >>
    /\ extracted = {}
    /\ rounds = 0
    /\ frontiers = << >>
    /\ result = {}

\* MorgueSpider.spider: the first call of _spider
spider ==
    /\ pc = "init"
    /\ all_urls' = urls
    /\ new_urls' = urls
    /\ depth' = self_depth
    /\ pc' = "call"
    /\ UNCHANGED << classifyVars, parseVars, urls, self_depth, known_urls, newer_urls, url_iter,
                    morgue_file, fetched, extracted, rounds, frontiers, result >>

\* _spider, guard true: the crawl returns all_urls
SpiderReturn ==
    /\ pc = "call"
    /\ SpiderGuard(depth, new_urls)
    /\ result' = all_urls
    /\ pc' = "done"
    /\ UNCHANGED << classifyVars, parseVars, urls, self_depth, known_urls, all_urls, new_urls, depth,
                    newer_urls, url_iter, morgue_file, fetched, extracted,
                    rounds, frontiers >>

\* _spider, guard false: a round starts
RoundStart ==
    /\ pc = "call"
    /\ ~SpiderGuard(depth, new_urls)
    /\ newer_urls' = {}
    /\ url_iter' = new_urls
    /\ rounds' = rounds + 1
    /\ frontiers' = Append(frontiers, new_urls)
    /\ pc' = "loop"
    /\ UNCHANGED << classifyVars, parseVars, urls, self_depth, known_urls, all_urls, new_urls, depth,
                    morgue_file, fetched, extracted, result >>

\* the loop delivers a URL the filter rejects: continue
IterSkip ==
    /\ pc = "loop"
    /\ \E u \in url_iter :
         /\ ~Expandable(u)
         /\ url_iter' = url_iter \ {u}
    /\ UNCHANGED << classifyVars, parseVars, urls, self_depth, known_urls, pc, all_urls, new_urls,
                    depth, newer_urls, morgue_file, fetched, extracted,
                    rounds, frontiers, result >>

\* the loop delivers a URL the filter accepts and find_links_in_file returns
\* its links; the timed checkpoint is taken when the clock says so
IterFetch ==
    /\ pc = "loop"
    /\ \E u \in url_iter, links \in LinkSets, late \in BOOLEAN :
         /\ Expandable(u)
         /\ url_iter' = url_iter \ {u}
         /\ newer_urls' = newer_urls \cup links
         /\ fetched' = Append(fetched, u)
         /\ extracted' = extracted \cup links
         /\ morgue_file' =
              IF late
              THEN write_morgue_urls_to_file(newer_urls' \ all_urls,
                                             morgue_file)
              ELSE morgue_file
    /\ UNCHANGED << classifyVars, parseVars, urls, self_depth, known_urls, pc, all_urls, new_urls,
                    depth, rounds, frontiers, result >>

\* the loop delivers a URL the filter accepts and find_links_in_file raises:
\* nothing in _spider or spider catches it
IterFetchRaises ==
    /\ pc = "loop"
    /\ \E u \in url_iter :
         /\ Expandable(u)
         /\ url_iter' = url_iter \ {u}
         /\ fetched' = Append(fetched, u)
    /\ pc' = "raised"
    /\ UNCHANGED << classifyVars, parseVars, urls, self_depth, known_urls, all_urls, new_urls, depth,
                    newer_urls, morgue_file, extracted, rounds, frontiers, result >>

\* the loop is over: write what is new and make the recursive call
RoundEnd ==
    /\ pc = "loop"
    /\ url_iter = {}
    /\ LET newer == NextNewUrls(all_urls, newer_urls)
       IN  /\ morgue_file' = write_morgue_urls_to_file(newer, morgue_file)
           /\ all_urls' = NextAllUrls(all_urls, newer)
           /\ new_urls' = newer
           /\ newer_urls' = newer
    /\ depth' = depth - 1
    /\ pc' = "call"
    /\ UNCHANGED << classifyVars, parseVars, urls, self_depth, known_urls, url_iter, fetched,
                    extracted, rounds, frontiers, result >>

SpiderNext ==
    \/ spider
    \/ SpiderReturn
    \/ RoundStart
    \/ IterSkip
    \/ IterFetch
    \/ IterFetchRaises
    \/ RoundEnd

-----------------------------------------------------------------------------
(* WinningParser.parse_one_morgue (winning_parser.py) *)

MaxLines == 20         \* lines = txt.split('\n')[:20]
MinLines == 13         \* if len(lines) < 13
MinHeaderIndex == 21   \* strip_html: if i < 21

VersionPrefix == " Dungeon Crawl Stone Soup version "

VictoryPhrase == "Escaped with the Orb"

\* The lookup tables of crawl_data: lower-case full names and lower-case
\* abbreviations to the two-letter codes; deities to their names.
SPECIES ==
    [ n \in {"minotaur", "deep elf", "octopode"} |->
        CASE n = "minotaur" -> "Mi"
          [] n = "deep elf" -> "DE"
          [] n = "octopode" -> "Op" ]

SPECIES_ABR ==
    [ n \in {"mi", "de", "op"} |->
        CASE n = "mi" -> "Mi"
          [] n = "de" -> "DE"
          [] n = "op" -> "Op" ]

BACKGROUNDS ==
    [ n \in {"berserker", "earth elementalist", "wizard"} |->
        CASE n = "berserker" -> "Be"
          [] n = "earth elementalist" -> "EE"
          [] n = "wizard" -> "Wz" ]

BACKGROUNDS_ABR ==
    [ n \in {"be", "ee", "wz"} |->
        CASE n = "be" -> "Be"
          [] n = "ee" -> "EE"
          [] n = "wz" -> "Wz" ]

GODS ==
    [ n \in {"okawaru", "trog"} |->
        CASE n = "okawaru" -> "okawaru"
          [] n = "trog" -> "trog" ]

GODS_ABR ==
    [ n \in {"oka"} |-> "okawaru" ]

\* seq[:n]
Take(seq, n) == SubSeq(seq, 1, IF Len(seq) < n THEN Len(seq) ELSE n)

\* WinningParser.strip_html
strip_html(t) ==
    IF Contains(t, "<!DOCTYPE html>") \/ Contains(t, "<html>")
    THEN LET i == Find(t, VersionPrefix)
         IN  IF i < MinHeaderIndex THEN ""
             ELSE Split(SubSeq(t, i + 1, Len(t)), "</pre>")[1]
    ELSE t

IsDigit(c) == Find("0123456789", c) >= 0

\* the printable ASCII characters
Printable ==
    { CharAt(AsciiLo, i) : i \in 1..Len(AsciiLo) }
        \cup { CharAt(AsciiHi, i) : i \in 1..Len(AsciiHi) }

\* the two lower-case hexadecimal digits of n in 0..255
Hex2(n) ==
    CharAt("0123456789abcdef", (n \div 16) + 1)
        \o CharAt("0123456789abcdef", (n % 16) + 1)

\* repr(c) of a character inside the quotes q
ReprChar(c, q) ==
    IF c = "\\" THEN "\\\\"
    ELSE IF c = q THEN "\\" \o c
    ELSE IF c = "\t" THEN "\\t"
    ELSE IF c = "\n" THEN "\\n"
    ELSE IF c = "\r" THEN "\\r"
    ELSE IF c \in Printable THEN c
    ELSE "\\x" \o Hex2(Ord(c))

\* repr of every character of s in turn, inside the quotes q
RECURSIVE ReprBody(_, _)
ReprBody(s, q) ==
    IF s = "" THEN ""
    ELSE IF Len(s) = 1 THEN ReprChar(s, q)
    ELSE ReprBody(SubSeq(s, 1, Len(s) \div 2), q)
         \o ReprBody(SubSeq(s, (Len(s) \div 2) + 1, Len(s)), q)

\* repr(s): in double quotes when s holds a ' and no ", else in single quotes
Repr(s) ==
    IF Contains(s, "'") /\ ~Contains(s, "\"")
    THEN "\"" \o ReprBody(s, "\"") \o "\""
    ELSE "'" \o ReprBody(s, "'") \o "'"

\* the digits of d from its first digit that is not 0 on: the zeros and
\* underscores before it add nothing to the value
Significant(d) ==
    LET nz == { i \in 1..Len(d) : CharAt(d, i) \notin {"0", "_"} }
    IN  IF nz = {} THEN "" ELSE SubSeq(d, Min(nz), Len(d))

\* the value of a run of digits and underscores, after the value acc
RECURSIVE DigitsValue(_, _)
DigitsValue(s, acc) ==
    IF s = "" THEN acc
    ELSE IF CharAt(s, 1) = "_" THEN DigitsValue(SubSeq(s, 2, Len(s)), acc)
    ELSE DigitsValue(SubSeq(s, 2, Len(s)),
                     10 * acc + Find("0123456789", CharAt(s, 1)))

\* the white space int() skips at the two ends of an ASCII literal: the
\* characters 9..13 and 32
IntSpace == { CharAt(AsciiCtl, i) : i \in 9..13 } \cup {" "}

\* s without the white space of int() at its two ends
RECURSIVE StripInt(_)
StripInt(s) ==
    IF s = "" THEN ""
    ELSE IF CharAt(s, 1) \in IntSpace THEN StripInt(SubSeq(s, 2, Len(s)))
    ELSE IF CharAt(s, Len(s)) \in IntSpace
    THEN StripInt(SubSeq(s, 1, Len(s) - 1))
    ELSE s

\* sys.get_int_max_str_digits(): the most digits int() converts
MaxStrDigits == 4300

\* the ValueError of int(s) for a literal that is no integer: its message
\* holds the first 200 characters of repr(s)
InvalidLiteral(s) ==
    [ok |-> FALSE, val |-> 0,
     msg |-> "invalid literal for int() with base 10: " \o Take(Repr(s), 200)]

\* the ValueError of int() for a literal of n digits, n over the limit
TooManyDigits(n) ==
    [ok |-> FALSE, val |-> 0,
     msg |-> "Exceeds the limit (" \o ToString(MaxStrDigits)
                 \o " digits) for integer string conversion: value has "
                 \o ToString(n)
                 \o " digits; use sys.set_int_max_str_digits() to increase the limit"]

\* int(s): white space, a sign, then the run of digits and underscores is
\* read (it starts and ends with a digit and holds no two underscores in a
\* row), its digits are counted against the limit, and nothing but white
\* space may follow it; anything else is a ValueError. The value is that of a
\* literal below 2^31.
ParseInt(s) ==
    LET t == StripInt(s)
        signed == Len(t) > 0 /\ CharAt(t, 1) \in {"+", "-"}
        d == IF signed THEN SubSeq(t, 2, Len(t)) ELSE t
        other == { i \in 1..Len(d) :
                     ~(IsDigit(CharAt(d, i)) \/ CharAt(d, i) = "_") }
        n == IF other = {} THEN Len(d) ELSE Min(other) - 1
        digits == Cardinality({ i \in 1..n : IsDigit(CharAt(d, i)) })
    IN  IF \/ n = 0
           \/ ~IsDigit(CharAt(d, 1))
           \/ ~IsDigit(CharAt(d, n))
           \/ Contains(SubSeq(d, 1, n), "__")
        THEN InvalidLiteral(s)
        ELSE IF digits > MaxStrDigits THEN TooManyDigits(digits)
        ELSE IF n < Len(d) THEN InvalidLiteral(s)
        ELSE [ok |-> TRUE,
              val |-> IF signed /\ CharAt(t, 1) = "-"
                      THEN 0 - DigitsValue(Significant(d), 0)
                      ELSE DigitsValue(Significant(d), 0),
              msg |-> ""]

\* the version of the first line: lines 177-178
ParseVersion(line0) ==
    LET head == Split(Split(line0, " version ")[2], "-")[1]
        toks == SplitWS(head)
        v == IF toks = << >> THEN << >> ELSE Split(toks[1], ".")
    IN  IF Len(v) < 2
        THEN [ok |-> FALSE, version |-> ""]
        ELSE [ok |-> TRUE, version |-> v[1] \o "." \o v[2]]

\* the test of line 190 for the build-description line
IsBuildLine(line) ==
    /\ Contains(line, "the")
    /\ Contains(line, "(")
    /\ Contains(line, ")")
    /\ Contains(line, "Turns:")
    /\ Contains(line, "Time:")

\* the god of a line 'Was ... .': line 189
GodOfLine(line) ==
    LET parts == Split(Replace(Split(Lower(line), ".")[1], " (penitent)", ""),
                       " ")
    IN  parts[Len(parts)]

\* the loop of lines 183-192 without the break of line 192
RECURSIVE ScanLinesNoBreak(_, _, _)
ScanLinesNoBreak(lines, i, acc) ==
    IF i > Len(lines) THEN acc
    ELSE
      LET line == lines[i]
          st == Strip(line)
      IN  IF Len(st) = 0 THEN ScanLinesNoBreak(lines, i + 1, acc)
          ELSE IF StartsWith(st, "... and ")
          THEN LET r == ParseInt(Split(Split(line, "... and ")[2],
                                       " runes")[1])
               IN  IF r.ok
                   THEN ScanLinesNoBreak(lines, i + 1,
                                         [acc EXCEPT !.num_runes = r.val])
                   ELSE [acc EXCEPT !.err = r.msg]
          ELSE IF StartsWith(st, "Was ") /\ EndsWith(st, ".")
          THEN ScanLinesNoBreak(lines, i + 1,
                                [acc EXCEPT !.god = GodOfLine(line)])
          ELSE IF IsBuildLine(line)
          THEN ScanLinesNoBreak(lines, i + 1, [acc EXCEPT !.the_line = line])
          ELSE ScanLinesNoBreak(lines, i + 1, acc)

\* the loop of lines 183-192 from line i on; err is the message of the
\* ValueError of int(), if it was raised
RECURSIVE ScanLines(_, _, _)
ScanLines(lines, i, acc) ==
    IF i > Len(lines) THEN acc
    ELSE
      LET line == lines[i]
          st == Strip(line)
      IN  IF Len(st) = 0 THEN ScanLines(lines, i + 1, acc)
          ELSE IF StartsWith(st, "... and ")
          THEN LET r == ParseInt(Split(Split(line, "... and ")[2],
                                       " runes")[1])
               IN  IF r.ok
                   THEN ScanLines(lines, i + 1,
                                  [acc EXCEPT !.num_runes = r.val])
                   ELSE [acc EXCEPT !.err = r.msg]
          ELSE IF StartsWith(st, "Was ") /\ EndsWith(st, ".")
          THEN ScanLines(lines, i + 1, [acc EXCEPT !.god = GodOfLine(line)])
          ELSE IF IsBuildLine(line)
          THEN [acc EXCEPT !.the_line = line]
          ELSE ScanLines(lines, i + 1, acc)

\* line 194: if not len(the_line) or num_runes < 0
ScanFailed(the_line, num_runes) == Len(the_line) = 0 \/ num_runes < 0

Lookup(table, abr, key) ==
    IF key \in DOMAIN table THEN table[key]
    ELSE IF key \in DOMAIN abr THEN abr[key]
    ELSE key

\* the try block of lines 197-228: ok is FALSE when the block raised
ResolveBuild(the_line, god) ==
    LET build == Lower(Split(Split(the_line, "(")[2], ")")[1])
        b == SplitWS(build)
        code == ~Contains(build, " ") /\ Len(build) = 4
        one == ~code /\ Len(b) >= 1 /\ b[1] \in DOMAIN SPECIES
        two == /\ ~code /\ ~one /\ Len(b) >= 2
               /\ (b[1] \o " " \o b[2]) \in DOMAIN SPECIES
        species == IF code THEN SubSeq(build, 1, 2)
                   ELSE IF one THEN SPECIES[b[1]]
                   ELSE SPECIES[b[1] \o " " \o b[2]]
        background == IF code THEN SubSeq(build, 3, 4)
                      ELSE IF one THEN Join(Tail(b), " ")
                      ELSE Join(Tail(Tail(b)), " ")
    IN  IF ~(code \/ one \/ two)
        THEN [ok |-> FALSE, build |-> build, species |-> "",
              background |-> "", god |-> ""]
        ELSE [ok |-> TRUE, build |-> build,
              species |-> Lookup(SPECIES, SPECIES_ABR, species),
              background |-> Lookup(BACKGROUNDS, BACKGROUNDS_ABR, background),
              god |-> Lookup(GODS, GODS_ABR, god)]

\* line 230: if len(species) != 2 or len(background) != 2
BadCodes(species, background) == Len(species) # 2 \/ Len(background) # 2

\* WinningParser._save_winners: url.starts is no method of str, so the call
\* raises AttributeError as soon as self.save_winners is true
save_winners_raises(save, u) == save

Raised(kind, msg) == [kind |-> kind, msg |-> msg]

\* the tests of lines 167-172 with the victory test first
StructureLoserFirst(lines, t) ==
    IF ~Contains(t, VictoryPhrase) THEN "Loser"
    ELSE IF Len(lines) < MinLines THEN "short"
    ELSE IF ~StartsWith(lines[1], VersionPrefix) THEN "header"
    ELSE "ok"

\* lines 167-172: the structural tests, in the order of the code
Structure(lines, t) ==
    IF Len(lines) < MinLines THEN "short"
    ELSE IF ~StartsWith(lines[1], VersionPrefix) THEN "header"
    ELSE IF ~Contains(t, VictoryPhrase) THEN "Loser"
    ELSE "ok"

\* lines 197-233: the build of the line found, resolved or not
BuildOutcome(r, num_runes, version) ==
    IF ~r.ok \/ BadCodes(r.species, r.background)
    THEN Raised("ParserError", "Build info: " \o r.build)
    ELSE [kind |-> "Winner",
          species |-> r.species,
          background |-> r.background,
          god |-> r.god,
          num_runes |-> num_runes,
          version |-> version]

\* lines 183-233: what the loop over the lines found
ScanOutcome(sc, version) ==
    IF sc.err # "" THEN Raised("ValueError", sc.err)
    ELSE IF ScanFailed(sc.the_line, sc.num_runes)
    THEN Raised("ParserError", "Error parsing file")
    ELSE BuildOutcome(ResolveBuild(sc.the_line, sc.god), sc.num_runes,
                      version)

\* lines 177-233: the version of the first line, then the loop
VersionOutcome(ver, lines) ==
    IF ~ver.ok THEN Raised("IndexError", "list index out of range")
    ELSE ScanOutcome(ScanLines(lines, 2,
                       [god |-> "", num_runes |-> -1, the_line |-> "",
                        err |-> ""]),
                     ver.version)

\* lines 174-233: a text that passed the structural tests
ExtractBuild(lines, t, u, save) ==
    IF save_winners_raises(save, u)
    THEN Raised("AttributeError", "'str' object has no attribute 'starts'")
    ELSE VersionOutcome(ParseVersion(lines[1]), lines)

\* lines 167-233: the structural tests and what follows them
StructureOutcome(st, lines, t, u, save) ==
    CASE st = "short" ->
           Raised("ParserError", "Invalid file, not long enough")
      [] st = "header" ->
           Raised("ParserError", "Invalid file, starting line not found")
      [] st = "Loser" -> Raised("Loser", "This is not a winning run.")
      [] OTHER -> ExtractBuild(lines, t, u, save)

\* lines 166-233: the first lines of the text
LinesOutcome(lines, t, u, save) ==
    StructureOutcome(Structure(lines, t), lines, t, u, save)

\* lines 166-233: the text after strip_html
StrippedOutcome(t, u, save) ==
    LinesOutcome(Take(Split(t, "\n"), MaxLines), t, u, save)

\* WinningParser.parse_one_morgue: the tuple returned or the exception raised
parse_one_morgue(t0, u, save) == StrippedOutcome(strip_html(t0), u, save)

-----------------------------------------------------------------------------
(* The morgue texts given to parse_one_morgue *)

PrePad == 16   \* filler lines that push the fields towards line MaxLines

Headers ==
    { " Dungeon Crawl Stone Soup version 0.23.1-rc1 (tiles) character file.",
      " Dungeon Crawl Stone Soup version 23 (console) character file.",
      " Dungeon Crawl Stone Soup version ",
      "Dungeon Crawl Stone Soup version 0.23.1 character file." }

EndLines == { "   Escaped with the Orb", "   Slain by a kobold" }

RuneLines ==
    { "", "   ... and 3 runes on turn 512!", "   ... and three runes!",
      "   ... and -1 runes on turn 512!" }

GodLines == { "", "   Was the Champion of Okawaru (penitent)." }

BuildLines ==
    { "",
      "Bob the Slayer (MiBe)   Turns: 512, Time: 00:50:10",
      "Bob the Slayer (Minotaur Berserker)   Turns: 512, Time: 00:50:10",
      "Bob the Slayer (Deep Elf Earth Elementalist)   Turns: 9, Time: 00:01",
      "Bob the Slayer (Grue Wizard)   Turns: 512, Time: 00:50:10" }

Wraps == { "plain", "html", "early" }

GoodHeader ==
    " Dungeon Crawl Stone Soup version 0.23.1-rc1 (tiles) character file."

GoodBuild ==
    "Bob the Slayer (Minotaur Berserker)   Turns: 512, Time: 00:50:10"

Filler(n) == [ i \in 1..n |-> "--" ]

Opt(line) == IF line = "" THEN << >> ELSE << line >>

\* the lines of a morgue: header, filler, the fields (the rune-count line
\* before the build line or after it), filler up to the wanted length
MorgueLines(h, e, r, g, b, runesFirst, pre, want) ==
    LET fields == IF runesFirst
                  THEN Opt(g) \o << e >> \o Opt(r) \o Opt(b)
                  ELSE Opt(b) \o Opt(g) \o << e >> \o Opt(r)
        top == << h >> \o Filler(pre) \o fields
    IN  top \o Filler(IF want > Len(top) THEN want - Len(top) ELSE 0)

\* the text as it is fetched: plain, inside an HTML page, or plain with an
\* HTML marker in a line after the header
Wrap(w, t) ==
    CASE w = "plain" -> t
      [] w = "html" ->
           "<!DOCTYPE html>\n<html><body><pre>\n" \o t \o "\n</pre></body></html>"
      [] w = "early" -> "<html><pre>" \o t \o "</pre></html>"
      [] w = "late" -> t \o "\nNotes: the page said <html>"

\* the texts with at most one line of each field
GridTexts ==
    { Wrap(w, Join(MorgueLines(h, e, r, g, b, rf, pre, want), "\n")) :
        h \in Headers, e \in EndLines, r \in RuneLines, g \in GodLines,
        b \in BuildLines, rf \in BOOLEAN, pre \in {0, PrePad},
        want \in {MinLines - 1, MinLines, MinLines + 1}, w \in Wraps }

MaxFields == 3     \* a text of FieldTexts holds at most MaxFields field lines

\* field lines that may come several times and in any order: rune counts,
\* builds, a rune-count line and a deity line that pass the build test too
FieldPool ==
    { "   ... and 3 runes on turn 512!",
      "   ... and -1 runes on turn 512!",
      "   ... and three runes!",
      "Bob the Slayer (MiBe)   Turns: 512, Time: 00:50:10",
      "Bob the Slayer (DEEE)   Turns: 9, Time: 00:01",
      "   ... and 2 runes (the last) Turns: 512, Time: 00:50:10",
      "   Was the Champion of Trog (Turns: 512, Time: 00:50:10)." }

FieldSeqs(n) == UNION { [1..k -> FieldPool] : k \in 0..n }

\* s repeated n times
RECURSIVE Repeat(_, _)
Repeat(s, n) ==
    IF n = 0 THEN ""
    ELSE IF n % 2 = 0 THEN Repeat(s \o s, n \div 2)
    ELSE s \o Repeat(s, n - 1)

\* a rune-count line whose count has one digit more than int() converts
LongRuneLine == "   ... and " \o Repeat("7", MaxStrDigits + 1) \o " runes!"

\* a morgue of MinLines lines at least: header, end line, the field lines
FieldText(fields, e, w) ==
    Wrap(w, Join(<< GoodHeader, e >> \o fields
                   \o Filler(IF MinLines > Len(fields) + 2
                             THEN MinLines - Len(fields) - 2 ELSE 0), "\n"))

\* the texts with field lines in every order: winning plain texts, texts of
\* either end with an HTML marker after the header, and winning texts with the
\* long rune count before the build line and after it
FieldTexts ==
    { FieldText(f, "   Escaped with the Orb", "plain") : f \in FieldSeqs(MaxFields) }
        \cup { FieldText(f, e, "late") : f \in FieldSeqs(1), e \in EndLines }
        \cup { FieldText(f, "   Escaped with the Orb", "plain") :
                 f \in { << LongRuneLine, GoodBuild >>,
                         << GoodBuild, LongRuneLine >> } }

Texts == GridTexts \cup FieldTexts

Sources == { "http://s/morgue-c.txt", "data/morgue-c.txt" }

ClassifyInit ==
    /\ txt \in Texts
    /\ url \in Sources
    /\ save_winners \in BOOLEAN
    /\ outcome = [kind |-> "none"]

\* one call of parse_one_morgue
Classify ==
    /\ outcome.kind = "none"
    /\ outcome' = parse_one_morgue(txt, url, save_winners)
    /\ UNCHANGED << spiderVars, known_urls, parseVars, txt, url,
                    save_winners >>

-----------------------------------------------------------------------------
(* WinningParser.parse (winning_parser.py) *)

\* what parse() is delivered: the lines of the master files as readlines()
\* gives them (lines 69-75), each with its line end but for a last line
\* without one: a network URL, a text file, a bzip2 file in a directory
\* named after the server connection it came over, and a bzip2 file as the
\* last line of a master file, without line end
ParseUrls ==
    { "http://s/morgue-c.txt\n", "data/morgue-d.txt\n",
      "data/connection/morgue-f.txt.bz2\n", "data/morgue-e.txt.bz2" }

Batches ==
    UNION { [1..n -> ParseUrls] : n \in 0..MaxBatch }

\* a morgue text of the batch: its fields in the order of a real morgue
BatchText(h, e, r, b, want) ==
    Join(MorgueLines(h, e, r, "   Was the Champion of Okawaru (penitent).",
                     b, TRUE, 0, want), "\n")

\* a winner, a loser, a text too short, a rune count that is no integer, a
\* version without '.', two builds that do not resolve
BatchTexts ==
    { BatchText(GoodHeader, "   Escaped with the Orb",
                "   ... and 3 runes on turn 512!", GoodBuild, MinLines),
      BatchText(GoodHeader, "   Slain by a kobold",
                "   ... and 3 runes on turn 512!", GoodBuild, MinLines),
      BatchText(GoodHeader, "   Escaped with the Orb",
                "   ... and 3 runes on turn 512!", GoodBuild, 0),
      BatchText(GoodHeader, "   Escaped with the Orb",
                "   ... and three runes!", GoodBuild, MinLines),
      BatchText(" Dungeon Crawl Stone Soup version 23 (console) character file.",
                "   Escaped with the Orb",
                "   ... and 3 runes on turn 512!", GoodBuild, MinLines),
      BatchText(GoodHeader, "   Escaped with the Orb",
                "   ... and 3 runes on turn 512!",
                "Bob the Slayer (Grue Wizard)   Turns: 512, Time: 00:50:10",
                MinLines),
      BatchText(GoodHeader, "   Escaped with the Orb",
                "   ... and 3 runes on turn 512!",
                "Bob the Slayer (Connection Mage)   Turns: 512, Time: 00:50:10",
                MinLines) }

\* str(e) of a ParserError of custom_errors
ParserErrorStr(msg) == "ParserError: " \o msg

\* str(e) of what parse_one_morgue raised
ErrStr(o) == IF o.kind = "ParserError" THEN ParserErrorStr(o.msg) ELSE o.msg

\* lines 98-103: what reading the URL gives, a text or an exception.
\* read_url and read_txt_file strip the URL, read_bzip_file does not; a line
\* that ends with its line end does not end with 'bz2' and is read by
\* read_txt_file.
ReadResults(u) ==
    IF StartsWith(u, "http")
    THEN { [ok |-> TRUE, txt |-> t, kind |-> "", msg |-> ""] : t \in BatchTexts }
         \cup
         { [ok |-> FALSE, txt |-> "", kind |-> "ConnectionError",
            msg |-> "HTTPConnectionPool(host='s', port=80): Max retries exceeded"],
           [ok |-> FALSE, txt |-> "", kind |-> "UnicodeDecodeError",
            msg |-> "'utf-8' codec can't decode byte 0xff in position 0: invalid start byte"] }
    ELSE IF EndsWith(u, "bz2")
    THEN \* read_bzip_file returns bytes, which strip_html cannot search
         { [ok |-> FALSE, txt |-> "", kind |-> "TypeError",
            msg |-> "a bytes-like object is required, not 'str'"],
           [ok |-> FALSE, txt |-> "", kind |-> "FileNotFoundError",
            msg |-> "[Errno 2] No such file or directory: " \o Repr(u)] }
    ELSE { [ok |-> TRUE, txt |-> t, kind |-> "", msg |-> ""] : t \in BatchTexts }
         \cup
         { [ok |-> FALSE, txt |-> "", kind |-> "FileNotFoundError",
            msg |-> "[Errno 2] No such file or directory: " \o Repr(Strip(u))],
           [ok |-> FALSE, txt |-> "", kind |-> "UnicodeDecodeError",
            msg |-> "'utf-8' codec can't decode byte 0xf7 in position 11: invalid start byte"] }

\* lines 106-108: the line of the winners file
WinnerLine(u, o) ==
    LET god_str == IF Len(o.god) > 0 THEN "^" \o o.god ELSE ""
    IN  Strip(u) \o "  " \o o.species \o o.background \o god_str \o ","
        \o ToString(o.num_runes) \o "," \o o.version \o "\n"

\* line 110: the line of the losers file
LoserLine(u) == Strip(u) \o "\n"

\* lines 112-117: the line of the errors file
ErrorLine(u, o) ==
    LET err == Replace(ErrStr(o), "\n", "    ")
    IN  IF Contains(Lower(err), "connection")
        THEN Strip(u) \o " ConnectionError\n"
        ELSE LET err_type == IF Contains(err, "ParserError")
                             THEN "ParserError" ELSE "UnknownError"
             IN  Strip(u) \o "  " \o err_type \o ": " \o err \o "\n"

\* the handlers with the last one catching ParserError only
HandlerParserErrorOnly(kind) ==
    IF kind = "Loser" THEN "losers"
    ELSE IF kind = "ParserError" THEN "errors"
    ELSE "none"

\* lines 109-111: the handler an exception of the try block reaches:
\* except Loser, then except Exception
Handler(kind) == IF kind = "Loser" THEN "losers" ELSE "errors"

ParseInit ==
    /\ batch \in Batches
    /\ known_urls \in SUBSET {"http://s/morgue-c.txt", "data/morgue-d.txt"}
    /\ save_winners \in BOOLEAN
    /\ pos = 0
    /\ wf = << >>
    /\ lf = << >>
    /\ ef = << >>
    /\ stopped = FALSE
    /\ run = 1
    /\ past_batch = << >>
    /\ past_done = {}
    /\ txt = ""
    /\ url = ""
    /\ outcome = [kind |-> "none"]

\* KnownMorgues.includes of line 91, asked about a line of a master file: the
\* URL of the line is among the known keys
Includes(u) == Strip(u) \in known_urls

\* lines 89-92: the URL delivered is known to the deduplication index
ParseSkipKnown ==
    /\ ~stopped
    /\ pos < Len(batch)
    /\ Includes(batch[pos + 1])
    /\ pos' = pos + 1
    /\ url' = batch[pos + 1]
    /\ UNCHANGED << spiderVars, known_urls, txt, save_winners, outcome,
                    batch, wf, lf, ef, stopped, run, past_batch, past_done >>

\* lines 106-117: the files after the outcome o of the URL u, which handler
\* h takes ("none": the exception leaves the loop)
Recorded(u, t, o, h) ==
    /\ url' = u
    /\ txt' = t
    /\ outcome' = o
    /\ wf' = IF h = "winners" THEN Append(wf, WinnerLine(u, o)) ELSE wf
    /\ lf' = IF h = "losers" THEN Append(lf, LoserLine(u)) ELSE lf
    /\ ef' = IF h = "errors" THEN Append(ef, ErrorLine(u, o)) ELSE ef
    /\ stopped' = (h = "none")
    /\ pos' = pos + 1

\* lines 96-117: the try block and its handlers
Tried(u, t, o) ==
    Recorded(u, t, o, IF o.kind = "Winner" THEN "winners" ELSE Handler(o.kind))

\* parse_one_morgue over the texts and URLs of the batches, computed once
ParsedBatchText ==
    [ t \in BatchTexts, u \in ParseUrls, save \in BOOLEAN |->
        parse_one_morgue(t, u, save) ]

\* lines 98-106: reading gave r
ReadAndParse(u, r) ==
    Tried(u, r.txt,
          IF r.ok THEN ParsedBatchText[r.txt, u, save_winners]
          ELSE Raised(r.kind, r.msg))

\* the loop without the question to the deduplication index of lines 91-92
ParseOneNoIndexCheck ==
    /\ ~stopped
    /\ pos < Len(batch)
    /\ \E r \in ReadResults(batch[pos + 1]) : ReadAndParse(batch[pos + 1], r)
    /\ UNCHANGED << spiderVars, known_urls, save_winners, batch, run,
                    past_batch, past_done >>

\* lines 89-117: the URL delivered is read, classified and recorded
ParseOne ==
    /\ ~stopped
    /\ pos < Len(batch)
    /\ ~Includes(batch[pos + 1])
    /\ \E r \in ReadResults(batch[pos + 1]) : ReadAndParse(batch[pos + 1], r)
    /\ UNCHANGED << spiderVars, known_urls, save_winners, batch, run,
                    past_batch, past_done >>

ParseNext == ParseSkipKnown \/ ParseOne

\* the key of a line of a record file: the URL it starts with, which ends at
\* the first white space
KeyOf(line) ==
    LET sp == { i \in 1..Len(line) : IsSpace(CharAt(line, i)) }
    IN  IF sp = {} THEN line ELSE SubSeq(line, 1, Min(sp) - 1)

\* KnownMorgues.find over a record file: the keys of its lines
KnownKeys(file) == { KeyOf(file[i]) : i \in 1..Len(file) }

\* lines 69-88 of a later run: parse() has returned and is run again over the
\* same data directory and the same master files, as they were or with URLs
\* appended to them since.  The index is loaded from the record files, those
\* of the earlier run included; the records of this run go to files of their
\* own.
ParseRerun ==
    /\ ~stopped
    /\ pos = Len(batch)
    /\ run < MaxRuns
    /\ batch' \in { b \in Batches : /\ Len(b) >= Len(batch)
                                     /\ SubSeq(b, 1, Len(batch)) = batch }
    /\ known_urls' = known_urls \cup KnownKeys(wf) \cup KnownKeys(lf)
                                \cup KnownKeys(ef)
    /\ past_done' = past_done
                     \cup { Strip(batch[i]) :
                              i \in { j \in 1..Len(batch) :
                                        ~Includes(batch[j]) } }
    /\ past_batch' = batch
    /\ run' = run + 1
    /\ pos' = 0
    /\ wf' = << >>
    /\ lf' = << >>
    /\ ef' = << >>
    /\ txt' = ""
    /\ url' = ""
    /\ outcome' = [kind |-> "none"]
    /\ UNCHANGED << spiderVars, save_winners, stopped >>

RerunNext == ParseSkipKnown \/ ParseOne \/ ParseRerun

-----------------------------------------------------------------------------
(* Specifications *)

ClassifyIdle ==
    /\ txt = ""
    /\ url = ""
    /\ save_winners = FALSE
    /\ outcome = [kind |-> "none"]

ParseIdle ==
    /\ batch = << >>
    /\ pos = 0
    /\ wf = << >>
    /\ lf = << >>
    /\ ef = << >>
    /\ stopped = FALSE
    /\ run = 1
    /\ past_batch = << >>
    /\ past_done = {}

Init == SpiderInit /\ ClassifyIdle /\ ParseIdle


SpiderIdle ==
    /\ urls = {}
    /\ self_depth = 0
    /\ pc = "idle"
    /\ all_urls = {}
    /\ new_urls = {}
    /\ depth = 0
    /\ newer_urls = {}
    /\ url_iter = {}
    /\ morgue_file = << >>
    /\ fetched = << >>
    /\ extracted = {}
    /\ rounds = 0
    /\ frontiers = << >>
    /\ result = {}

\* calls of parse_one_morgue over the morgue texts
ClassifyStart ==
    ClassifyInit /\ SpiderIdle /\ ParseIdle /\ known_urls = {}

ClassifySpec == ClassifyStart /\ [][Classify]_vars

ParseStart == ParseInit /\ SpiderIdle

\* one run of parse() over a batch
ParseSpec == ParseStart /\ [][ParseNext]_vars

\* runs of parse() one after the other over the same data directory
RerunSpec == ParseStart /\ [][RerunNext]_vars

\* the crawl
Spec == Init /\ [][SpiderNext]_vars

\* the crawl, where every fetch returns or raises and the URLIterator goes on
\* delivering: a step that can be taken is eventually taken
FairSpec == Spec /\ WF_vars(SpiderNext)

-----------------------------------------------------------------------------
(* The crawler's claims *)

\* C1, as stated: at the start of every round (every call of _spider) the
\* visited set all_urls and the pending set new_urls are disjoint, and when a
\* round completes every URL that was pending is in the visited set passed to
\* the next round.
C1_DisjointAtRoundStart ==
    /\ [](pc = "call" => all_urls \cap new_urls = {})
    /\ [][pc = "loop" /\ pc' = "call" => new_urls \subseteq all_urls']_vars

\* C2: a page fetch that fails is skipped: the exception of
\* find_links_in_file never leaves the crawl, which goes on to return a result.
C2_FetchFailureSkipped == pc # "raised"

\* C3: a crawl with max_depth = 0 returns exactly the seed set, fetches no
\* page and writes nothing to the discovered-URL file.
C3_DepthZeroReturnsSeeds ==
    self_depth = 0 =>
        /\ fetched = << >>
        /\ morgue_file = << >>
        /\ rounds = 0
        /\ (pc = "done" => result = urls)

\* a crawl of depth 0 over seeds the filter accepts has returned
C3_Witness ==
    /\ pc = "done"
    /\ self_depth = 0
    /\ "http://s/crawl/a.html" \in urls
    /\ result = urls

\* C4: when every page fetch returns, the crawl terminates; it performs at
\* most max_depth rounds, a round starts only with depth left and a non-empty
\* frontier, and with no depth left or an empty frontier the call returns.
C4_TerminatesWithinDepth ==
    /\ <>(pc = "done" \/ pc = "raised")
    /\ [](rounds <= self_depth)
    /\ [][pc = "call" /\ pc' = "loop" => depth > 0 /\ new_urls # {}]_vars
    /\ [][pc = "call" /\ (depth <= 0 \/ new_urls = {}) => pc' = "done"]_vars

\* the crawl used up its depth and returned with a frontier left
C4_Witness ==
    /\ pc = "done"
    /\ self_depth = 2
    /\ rounds = 2
    /\ depth = 0
    /\ new_urls # {}

\* C5: the set a crawl returns is the seed set united with every link
\* extracted from every fetched page, those of the last round included; when
\* no seed passes the relevance filter it is the seed set.
C5_ResultIsSeedsAndLinks ==
    pc = "done" =>
        /\ result = urls \cup extracted
        /\ (urls \cap ExpandablePool = {} => result = urls)

\* the crawl returned links that its last round found and never expanded
C5_Witness ==
    /\ pc = "done"
    /\ rounds = 2
    /\ new_urls # {}
    /\ new_urls \cap ExpandablePool # {}
    /\ new_urls \subseteq result
    /\ new_urls \cap urls = {}

\* C14: within one crawl no URL is expanded (given to find_links_in_file)
\* more than once: the frontier of a round holds no URL of the frontier of an
\* earlier round, also when a page links back to a seed or to a page of an
\* earlier round.
C14_NoUrlExpandedTwice ==
    /\ \A i, j \in 1..Len(fetched) : i # j => fetched[i] # fetched[j]
    /\ \A i, j \in 1..Len(frontiers) :
         i < j => frontiers[i] \cap frontiers[j] = {}

\* a page of the second round was expanded after links back to the seed and
\* to itself had been extracted
C14_Witness ==
    /\ urls = {"http://s/crawl/a.html"}
    /\ rounds = 2
    /\ fetched = << "http://s/crawl/a.html", "http://s/DCSS/b.html" >>
    /\ extracted = {"http://s/crawl/a.html", "http://s/DCSS/b.html"}
    /\ pc = "done"

\* what a step appended to the discovered-URL file
Appended == { morgue_file'[i] : i \in (Len(morgue_file) + 1)..Len(morgue_file') }

\* C15: within one crawl, over any sequence of timed checkpoints and
\* round-end writes, no URL is appended to the discovered-URL file more than
\* once, and every URL appended starts with 'http', was not in the visited
\* set all_urls and was not known to the deduplication index (the record
\* files from before the crawl and what the crawl has written so far) at the
\* time of the write; so a URL that a checkpoint wrote is not written again
\* at the end of the round.
C15_WrittenOnceAndNew ==
    /\ [](\A i, j \in 1..Len(morgue_file) :
            i # j => morgue_file[i] # morgue_file[j])
    /\ [][ /\ Len(morgue_file') >= Len(morgue_file)
           /\ SubSeq(morgue_file', 1, Len(morgue_file)) = morgue_file
           /\ \A u \in Appended :
                /\ StartsWith(u, "http")
                /\ u \notin all_urls
                /\ u \notin known_urls
                /\ u \notin Range(morgue_file) ]_vars

\* a checkpoint wrote a link of the first page, the second page held that
\* link and another, and the end of the round wrote the other alone
C15_Witness ==
    /\ pc = "call"
    /\ rounds = 1
    /\ morgue_file = << "http://s/news.html", "http://s/morgue-c.txt" >>
    /\ {"http://s/news.html", "http://s/morgue-c.txt"} \subseteq new_urls

-----------------------------------------------------------------------------
(* The classifier's claims *)

\* the text after the HTML unwrap stage and its lines
Unwrapped == strip_html(txt)

UnwrappedLines == Split(Unwrapped, "\n")

Classified == outcome.kind # "none"

\* the lines of the text as it is handed to parse_one_morgue
RawLines == Split(txt, "\n")

\* C6: a text that has at least 13 lines and a first line that begins with
\* the version prefix but that does not hold the victory phrase is a Loser,
\* never a ParserError or anything else, whatever its fields hold.
C6_LoserBeforeExtraction ==
    ( /\ Classified
      /\ Len(RawLines) >= MinLines
      /\ StartsWith(RawLines[1], VersionPrefix)
      /\ ~Contains(txt, VictoryPhrase) )
    => outcome.kind = "Loser"

\* C7: a text that has fewer than 13 lines after the HTML unwrap stage is a
\* ParserError, neither Loser nor Winner, victory phrase or header or not.
C7_ShortIsParserError ==
    (Classified /\ Len(UnwrappedLines) < MinLines)
    => (outcome.kind = "ParserError"
        /\ outcome.msg = "Invalid file, not long enough")

\* a short text with neither victory phrase nor version prefix was rejected
C7_Witness ==
    /\ outcome.kind = "ParserError"
    /\ Len(UnwrappedLines) = MinLines - 1
    /\ ~Contains(txt, VictoryPhrase)
    /\ ~StartsWith(UnwrappedLines[1], VersionPrefix)

\* C8: a valid winning text (one that parse_one_morgue makes a Winner of with
\* save-mode off) is a Winner with a species and a background of 2 characters
\* and a rune count >= 0, for every source and with save-mode off or on.
C8_WinnerForValidText ==
    (Classified /\ parse_one_morgue(txt, url, FALSE).kind = "Winner")
    => ( /\ outcome.kind = "Winner"
         /\ Len(outcome.species) = 2
         /\ Len(outcome.background) = 2
         /\ outcome.num_runes >= 0 )

\* C9: every call of parse_one_morgue ends as Winner, Loser or ParserError.
C9_ThreeOutcomes ==
    outcome.kind \in {"none", "Winner", "Loser", "ParserError"}

\* the lines stage 4 goes over: lines 2 to 20 of the text after the unwrap
ScannedLines == Take(UnwrappedLines, MaxLines)

\* the test of line 186 for a rune-count line
RunePrefixed(line) == StartsWith(Strip(line), "... and ")

\* the test of line 188 for a deity line
DeityLine(line) ==
    StartsWith(Strip(line), "Was ") /\ EndsWith(Strip(line), ".")

\* int(...) of line 187: the count a rune-count line holds
CountOf(line) == ParseInt(Split(Split(line, "... and ")[2], " runes")[1])

\* a rune-count line: '... and <n> runes', n an integer >= 0
IsRuneLine(line) ==
    RunePrefixed(line) /\ CountOf(line).ok /\ CountOf(line).val >= 0

\* a line the loop takes for the build description: it gets to the test of
\* line 190, being no rune-count line and no deity line, and passes it
TakenAsBuild(line) ==
    ~RunePrefixed(line) /\ ~DeityLine(line) /\ IsBuildLine(line)

\* where the rune-count lines and the build-description lines are among the
\* lines stage 4 goes over
RuneLinesOf(lines) == { i \in 2..Len(lines) : IsRuneLine(lines[i]) }

BuildLinesOf(lines) == { i \in 2..Len(lines) : TakenAsBuild(lines[i]) }

\* the text passed stage 2 as a win
ValidWin ==
    /\ Len(UnwrappedLines) >= MinLines
    /\ StartsWith(UnwrappedLines[1], VersionPrefix)
    /\ Contains(Unwrapped, VictoryPhrase)

ErrorParsingFile ==
    outcome.kind = "ParserError" /\ outcome.msg = "Error parsing file"

\* the call went through stage 4: it ended with the error of stage 4, or in
\* stage 5
Stage4Ended ==
    \/ outcome.kind = "Winner"
    \/ ErrorParsingFile
    \/ outcome.kind = "ParserError" /\ StartsWith(outcome.msg, "Build info: ")

\* no required order: R and B are where the rune-count and build lines are
AnyOrder(win, R, B) ==
    /\ (win /\ R # {} /\ B # {} => ~ErrorParsingFile)
    /\ (Stage4Ended => (ErrorParsingFile <=> (R = {} \/ B = {})))

\* C13, as stated: stage 4 recognises the rune-count, deity and build lines
\* in no required order: a valid winning text whose first 20 lines hold a
\* rune-count line and a build line, in either order, does not raise
\* ParserError('Error parsing file'), and stage 4 raises that error exactly
\* when the build line or the rune count is absent from the scanned lines.
C13_AnyOrder ==
    Classified =>
      AnyOrder(ValidWin, RuneLinesOf(ScannedLines), BuildLinesOf(ScannedLines))

Max(S) == CHOOSE x \in S : \A y \in S : y <= x

\* the rune-count lines the loop reads: those before the first line of B
CountsRead(lines, B) ==
    { i \in 2..Len(lines) :
        RunePrefixed(lines[i]) /\ (B = {} \/ i < Min(B)) }

\* line 198: the build token of a build line
BuildToken(line) == Lower(Split(Split(line, "(")[2], ")")[1])

\* the call went on to stage 5 with this build line and this rune count
FoundBoth(line, n) ==
    \/ /\ outcome.kind = "Winner"
       /\ outcome.num_runes = n
       /\ outcome.species = ResolveBuild(line, "").species
       /\ outcome.background = ResolveBuild(line, "").background
    \/ /\ outcome.kind = "ParserError"
       /\ outcome.msg = "Build info: " \o BuildToken(line)

\* how stage 4 ends: B is where the build lines are, P where the rune-count
\* lines read are
Stage4Ends(lines, B, P) ==
    IF \E i \in P : ~CountOf(lines[i]).ok
    THEN outcome.kind = "ValueError"
    ELSE IF B # {} /\ P # {} /\ CountOf(lines[Max(P)]).val >= 0
    THEN FoundBoth(lines[Min(B)], CountOf(lines[Max(P)]).val)
    ELSE ErrorParsingFile

\* the call gets to stage 4: t, the text after the unwrap, is a winning text
\* of first lines lines, save-mode is off, the version has two components
ReachesStage4(t, lines) ==
    /\ Len(lines) >= MinLines
    /\ StartsWith(lines[1], VersionPrefix)
    /\ Contains(t, VictoryPhrase)
    /\ ~save_winners
    /\ ParseVersion(lines[1]).ok

\* stage 4 over the lines, B being where the build lines are
Stage4From(lines, B) == Stage4Ends(lines, B, CountsRead(lines, B))

\* stage 4 of a call on t, the text after the unwrap, and its first lines
Stage4Of(t, lines) ==
    ReachesStage4(t, lines) => Stage4From(lines, BuildLinesOf(lines))

Stage4OfText(t) == Stage4Of(t, Take(Split(t, "\n"), MaxLines))

\* C13, amended: stage 4 goes over lines 2 to 20 and stops at the first line
\* it takes for the build description, a line that is no rune-count line and
\* no deity line and passes the build test; it reads the rune-count lines
\* before that line, a later count replacing an earlier one. When every count
\* read is an integer, there is such a build line and the last count read is
\* >= 0, both are found: stage 5 works on that build line and that count and
\* ParserError('Error parsing file') is not raised. When every count read is
\* an integer, stage 4 raises that error exactly when there is no such build
\* line, no rune-count line before it, or a last count read below 0. When a
\* count read is no integer the call ends with the ValueError of int().
C13_RunesBeforeBuild == Classified => Stage4OfText(strip_html(txt))

\* the rune-count line comes after the first build line
RuneAfterBuild(R, B) == B # {} /\ \E r \in R : r > Min(B)

\* a winning text with its build line before its rune-count line, both in
\* the first 20 lines, ended with the error of stage 4
C13_Witness ==
    /\ ErrorParsingFile
    /\ ValidWin
    /\ RuneAfterBuild(RuneLinesOf(ScannedLines), BuildLinesOf(ScannedLines))

-----------------------------------------------------------------------------
(* The batch loop's claims *)

\* the number of deliveries so far of URLs the index did not know
Unknown(n) == Cardinality({ i \in 1..n : ~Includes(batch[i]) })

\* the records of u in a file
RecordsOf(u, file) ==
    Cardinality({ i \in 1..Len(file) : StartsWith(file[i], Strip(u) \o " ")
                                       \/ file[i] = Strip(u) \o "\n" })

\* the deliveries so far of u
Deliveries(u) == Cardinality({ i \in 1..pos : Strip(batch[i]) = Strip(u) })

\* C10: whatever reading or classifying a URL does, the loop is not left
\* before the batch is over, and every delivery of a URL the index does not
\* know adds exactly one line, to exactly one of the three files.
C10_OneRecordPerUrl ==
    /\ ~stopped
    /\ Len(wf) + Len(lf) + Len(ef) = Unknown(pos)
    /\ \A u \in ParseUrls :
         RecordsOf(u, wf) + RecordsOf(u, lf) + RecordsOf(u, ef)
           = IF Includes(u) THEN 0 ELSE Deliveries(u)

\* a batch went on after a read that raised and recorded both URLs
C10_Witness ==
    /\ pos = 2
    /\ Len(batch) = 2
    /\ batch[1] = "data/morgue-e.txt.bz2"
    /\ Len(ef) = 1
    /\ Len(wf) = 1
    /\ outcome.kind = "Winner"

\* C11: a URL is recorded as '<url> ConnectionError' only when its network
\* fetch failed, and a ParserError of the classifier ('Build info: <token>'
\* for any build token) is recorded as a ParserError line, never as
\* ConnectionError.
C11_ConnectionErrorOnlyForNetwork ==
    [][ Len(ef') > Len(ef) =>
          /\ ( EndsWith(ef'[Len(ef')], " ConnectionError\n")
                => ( StartsWith(url', "http")
                     /\ outcome'.kind = "ConnectionError" ) )
          /\ ( outcome'.kind = "ParserError"
                => StartsWith(ef'[Len(ef')],
                              Strip(url') \o "  ParserError: ") ) ]_vars

\* C12: across runs of parse() over the same master files, a URL that got a
\* record in the winners, losers or errors file of an earlier completed run
\* is known to the deduplication index in the later run and is neither read,
\* classified nor recorded again; a later run over an unchanged batch appends
\* no record.
C12_RecordedOnceAcrossRuns ==
    /\ [](past_done \subseteq known_urls)
    /\ [](\A u \in past_done :
            RecordsOf(u, wf) + RecordsOf(u, lf) + RecordsOf(u, ef) = 0)
    /\ [](run > 1 /\ batch = past_batch
            => wf = << >> /\ lf = << >> /\ ef = << >> /\ outcome.kind = "none")
    /\ [][ run' = run /\ (outcome' # outcome \/ txt' # txt
                          \/ Len(wf') + Len(lf') + Len(ef')
                               > Len(wf) + Len(lf) + Len(ef))
           => Strip(batch[pos + 1]) \notin past_done ]_vars

\* a second run over the unchanged batch of two URLs, both read, classified
\* and recorded by the first run, has ended
C12_Witness ==
    /\ run = 2
    /\ batch = past_batch
    /\ Len(batch) = 2
    /\ pos = 2
    /\ Strip(batch[1]) # Strip(batch[2])
    /\ past_done = { Strip(batch[1]), Strip(batch[2]) }
    /\ wf = << >> /\ lf = << >> /\ ef = << >>

=============================================================================
